---- MODULE Spec2Model ----
(***************************************************************************)
(* The batch-dispatch coordinator of compose_keys (src/src/main.rs):       *)
(* the shared AppState behind one tokio Mutex, the three request handlers  *)
(* (add_server, start_job, update), the poll loop start_job spawns for     *)
(* every registered host, and keyboard(), the best-result reduction.       *)
(***************************************************************************)
EXTENDS Integers, Sequences, FiniteSets, TLC

\* ---------------------------------------------------------------- bounds
MaxHosts == 2      \* registry entries
MaxJobs == 2       \* accepted start_job requests
MaxBatches == 2    \* largest `batches` a start_job request carries
MaxScore == 2      \* scores are 1..MaxScore
MaxReport == 1     \* keyboards carried by one BatchComplete
MaxLoops == 3      \* poll loops spawned over a run of Spec and FairSpec

Hosts == {"w1", "w2"}
\* the start-job forms submitted: a name, a batch size, and any batches <= MaxBatches
JobForms == {[job_name |-> "job-a", batch_size |-> 10],
             [job_name |-> "job-b", batch_size |-> 20]}
Layouts == {"L1", "L2"}
Scores == 1..MaxScore
NoLayout == ""

\* struct Keyboard { score, keys }: the 47 keys are one opaque layout value
Keyboard == [score : Scores, keys : Layouts]

\* the keyboards one BatchComplete response can carry
Reports == UNION {[1..n -> Keyboard] : n \in 0..MaxReport}

VARIABLES
    hosts,        \* AppState.hosts
    job_name,     \* AppState.job_name
    running,      \* AppState.running
    batches,      \* AppState.batches
    batch_size,   \* AppState.batch_size
    completed,    \* AppState.completed
    keyboards,    \* AppState.keyboards
    lock,         \* the tokio Mutex: 0 when free, else the index of the poll loop holding it
    loops,        \* the spawned poll-loop tasks, in spawn order
    worker,       \* what each remote worker would answer to GET /update
    sent,         \* every BatchReq built so far
    njobs,        \* accepted start_job requests so far
    start_out,    \* what the last start_job() returned
    status_out    \* what the last update() returned, NoStatus once AppState has changed since

app == <<hosts, job_name, running, batches, batch_size, completed, keyboards>>
vars == <<hosts, job_name, running, batches, batch_size, completed, keyboards,
          lock, loops, worker, sent, njobs, start_out, status_out>>

NoStatus == [status |-> "NONE", name |-> "", best |-> ""]

\* enum UpdateResp
RespInit == [tag |-> "Init", keyboards |-> <<>>]
RespInProgress == [tag |-> "InProgress", keyboards |-> <<>>]
RespBatchComplete(kbs) == [tag |-> "BatchComplete", keyboards |-> kbs]
NoResp == [tag |-> "None", keyboards |-> <<>>]

\* struct BatchReq, with the job (count of accepted start_job) it was built in
BatchReq(i) ==
    [job_name |-> job_name, device_name |-> loops[i].host,
     batch_size |-> batch_size, batch_number |-> completed,
     job |-> njobs]

\* ------------------------------------------------------- keyboard()
RECURSIVE InsertByScore(_, _)
InsertByScore(k, s) ==
    IF s = <<>> THEN <<k>>
    ELSE IF k.score <= Head(s).score THEN <<k>> \o s
    ELSE <<Head(s)>> \o InsertByScore(k, Tail(s))

\* keyboards.sort_by(score): a stable ascending sort
RECURSIVE SortByScore(_)
SortByScore(s) ==
    IF s = <<>> THEN <<>> ELSE InsertByScore(Head(s), SortByScore(Tail(s)))

\* keyboard() with the comparison turned round: the worst score first
keyboard_descending(kbs) ==
    IF Len(kbs) = 0 THEN NoLayout ELSE SortByScore(kbs)[Len(kbs)].keys

\* fn keyboard(keyboards): "" on an empty vector, else the layout of the first
\* element after the sort
keyboard(kbs) ==
    IF Len(kbs) = 0 THEN NoLayout ELSE SortByScore(kbs)[1].keys

\* update() testing keyboards.len() > 0 before state.running
update_view_results_first ==
    IF Len(keyboards) > 0 THEN
        [status |-> "COMPLETE", name |-> job_name, best |-> keyboard(keyboards)]
    ELSE IF running THEN
        [status |-> "RUNNING", name |-> job_name, best |-> keyboard(keyboards)]
    ELSE
        [status |-> "INIT", name |-> "", best |-> NoLayout]

\* what update() renders from the locked state
update_view ==
    IF running THEN
        [status |-> "RUNNING", name |-> job_name, best |-> keyboard(keyboards)]
    ELSE IF Len(keyboards) > 0 THEN
        [status |-> "COMPLETE", name |-> job_name, best |-> keyboard(keyboards)]
    ELSE
        [status |-> "INIT", name |-> "", best |-> NoLayout]

\* ------------------------------------------------------------- Init
Init ==
    /\ hosts = <<>>
    /\ job_name = ""
    /\ running = FALSE
    /\ batches = 0
    /\ batch_size = 0
    /\ completed = 0
    /\ keyboards = <<>>
    /\ lock = 0
    /\ loops = <<>>
    /\ worker = [h \in Hosts |-> "idle"]
    /\ sent = {}
    /\ njobs = 0
    /\ start_out = ""
    /\ status_out = NoStatus

\* --------------------------------------------------------- handlers
\* update() sorting state.keyboards itself, not a clone of it
update_sorts_in_place ==
    /\ lock = 0
    /\ keyboards' = SortByScore(keyboards)
    /\ status_out' = update_view
    /\ UNCHANGED <<hosts, job_name, running, batches, batch_size, completed,
                   lock, loops, worker, sent, njobs, start_out>>

\* GET /update
update ==
    /\ lock = 0
    /\ status_out' = update_view
    /\ UNCHANGED <<hosts, job_name, running, batches, batch_size, completed,
                   keyboards, lock, loops, worker, sent, njobs, start_out>>

\* add_server() also starting a poll loop for the new host when a job runs
add_server_joins_job(host) ==
    /\ lock = 0
    /\ Len(hosts) < MaxHosts
    /\ hosts' = Append(hosts, host)
    /\ loops' = IF running /\ Len(loops) < MaxLoops
                THEN Append(loops, [host |-> host, job |-> njobs, pc |-> "query",
                                    resp |-> [tag |-> "None", keyboards |-> <<>>]])
                ELSE loops
    /\ status_out' = NoStatus
    /\ UNCHANGED <<job_name, running, batches, batch_size, completed, keyboards,
                   lock, worker, sent, njobs, start_out>>

\* POST /add-server
add_server(host) ==
    /\ lock = 0
    /\ Len(hosts) < MaxHosts
    /\ hosts' = Append(hosts, host)
    /\ status_out' = NoStatus
    /\ UNCHANGED <<job_name, running, batches, batch_size, completed, keyboards,
                   lock, loops, worker, sent, njobs, start_out>>

\* the tasks start_job spawns: one per entry of the cloned hosts vector
spawned(hs, job) ==
    [n \in 1..Len(hs) |-> [host |-> hs[n], job |-> job, pc |-> "query", resp |-> NoResp]]

\* start_job() without the `if state.running` early return
start_job_unchecked(name, size, total) ==
    /\ lock = 0
    /\ njobs < MaxJobs
    /\ job_name' = name
    /\ batches' = total
    /\ batch_size' = size
    /\ running' = TRUE
    /\ loops' = loops \o spawned(hosts, njobs + 1)
    /\ njobs' = njobs + 1
    /\ start_out' = "Job Started"
    /\ status_out' = NoStatus
    /\ UNCHANGED <<hosts, completed, keyboards, lock, worker, sent>>

\* start_job() that also clears the progress of the job before
start_job_resets(name, size, total) ==
    /\ lock = 0
    /\ IF running THEN
           /\ start_out' = "ERROR: job already in progress"
           /\ UNCHANGED <<hosts, job_name, running, batches, batch_size, completed,
                          keyboards, lock, loops, worker, sent, njobs, status_out>>
       ELSE
           /\ njobs < MaxJobs
           /\ job_name' = name
           /\ batches' = total
           /\ batch_size' = size
           /\ running' = TRUE
           /\ completed' = 0
           /\ keyboards' = <<>>
           /\ loops' = loops \o spawned(hosts, njobs + 1)
           /\ njobs' = njobs + 1
           /\ start_out' = "Job Started"
           /\ status_out' = NoStatus
           /\ UNCHANGED <<hosts, lock, worker, sent>>

\* POST /start-job
start_job(name, size, total) ==
    /\ lock = 0
    /\ IF running THEN
           /\ start_out' = "ERROR: job already in progress"
           /\ UNCHANGED <<hosts, job_name, running, batches, batch_size, completed,
                          keyboards, lock, loops, worker, sent, njobs, status_out>>
       ELSE
           /\ njobs < MaxJobs
           /\ job_name' = name
           /\ batches' = total
           /\ batch_size' = size
           /\ running' = TRUE
           /\ loops' = loops \o spawned(hosts, njobs + 1)
           /\ njobs' = njobs + 1
           /\ start_out' = "Job Started"
           /\ status_out' = NoStatus
           /\ UNCHANGED <<hosts, completed, keyboards, lock, worker, sent>>

\* -------------------------------------------------------- poll loop
Alive(i) == i \in DOMAIN loops /\ loops[i].pc \notin {"done", "failed"}

\* client.get(host + "/update").send().await.json().await: the worker answers
\* Init when it has no batch, InProgress while it computes, BatchComplete once
poll_query(i) ==
    /\ i \in DOMAIN loops
    /\ loops[i].pc = "query"
    /\ LET h == loops[i].host IN
       \/ /\ worker[h] = "idle"
          /\ loops' = [loops EXCEPT ![i].pc = "resp", ![i].resp = RespInit]
          /\ UNCHANGED worker
       \/ /\ worker[h] = "busy"
          /\ loops' = [loops EXCEPT ![i].pc = "resp", ![i].resp = RespInProgress]
          /\ UNCHANGED worker
       \/ /\ worker[h] = "done"
          /\ \E kbs \in Reports :
                loops' = [loops EXCEPT ![i].pc = "resp",
                                          ![i].resp = RespBatchComplete(kbs)]
          /\ worker' = [worker EXCEPT ![h] = "idle"]
    /\ UNCHANGED <<hosts, job_name, running, batches, batch_size, completed,
                   keyboards, lock, sent, njobs, start_out, status_out>>

\* .expect("failed request") / .expect("failed parse"): the task panics with no
\* guard held
poll_query_fail(i) ==
    /\ i \in DOMAIN loops
    /\ loops[i].pc = "query"
    /\ loops' = [loops EXCEPT ![i].pc = "failed"]
    /\ UNCHANGED <<hosts, job_name, running, batches, batch_size, completed,
                   keyboards, lock, worker, sent, njobs, start_out, status_out>>

\* UpdateResp::InProgress => thread::sleep(5 s), then the next iteration
poll_in_progress(i) ==
    /\ i \in DOMAIN loops
    /\ loops[i].pc = "resp"
    /\ loops[i].resp.tag = "InProgress"
    /\ loops' = [loops EXCEPT ![i].pc = "query", ![i].resp = NoResp]
    /\ UNCHANGED <<hosts, job_name, running, batches, batch_size, completed,
                   keyboards, lock, worker, sent, njobs, start_out, status_out>>

\* the Init arm leaving the loop without clearing state.running
poll_init_keeps_running(i) ==
    /\ i \in DOMAIN loops
    /\ loops[i].pc = "resp"
    /\ loops[i].resp.tag = "Init"
    /\ lock = 0
    /\ IF completed < batches THEN
           /\ sent' = sent \cup {BatchReq(i)}
           /\ lock' = i
           /\ loops' = [loops EXCEPT ![i].pc = "post", ![i].resp = NoResp]
       ELSE
           /\ loops' = [loops EXCEPT ![i].pc = "done", ![i].resp = NoResp]
           /\ UNCHANGED <<sent, lock>>
    /\ UNCHANGED <<hosts, job_name, running, batches, batch_size, completed,
                   keyboards, worker, njobs, start_out, status_out>>

\* the Init arm counting the batch when it hands it out
poll_init_counts_assignment(i) ==
    /\ i \in DOMAIN loops
    /\ loops[i].pc = "resp"
    /\ loops[i].resp.tag = "Init"
    /\ lock = 0
    /\ IF completed < batches THEN
           /\ sent' = sent \cup {BatchReq(i)}
           /\ completed' = completed + 1
           /\ lock' = i
           /\ loops' = [loops EXCEPT ![i].pc = "post", ![i].resp = NoResp]
           /\ status_out' = NoStatus
           /\ UNCHANGED running
       ELSE
           /\ running' = FALSE
           /\ status_out' = IF running THEN NoStatus ELSE status_out
           /\ loops' = [loops EXCEPT ![i].pc = "done", ![i].resp = NoResp]
           /\ UNCHANGED <<sent, lock, completed>>
    /\ UNCHANGED <<hosts, job_name, batches, batch_size, keyboards,
                   worker, njobs, start_out>>

\* UpdateResp::Init: lock, then assign batch `completed` or end the job
poll_init(i) ==
    /\ i \in DOMAIN loops
    /\ loops[i].pc = "resp"
    /\ loops[i].resp.tag = "Init"
    /\ lock = 0
    /\ IF completed < batches THEN
           /\ sent' = sent \cup {BatchReq(i)}
           /\ lock' = i
           /\ loops' = [loops EXCEPT ![i].pc = "post", ![i].resp = NoResp]
           /\ UNCHANGED <<running, status_out>>
       ELSE
           /\ running' = FALSE
           /\ status_out' = IF running THEN NoStatus ELSE status_out
           /\ loops' = [loops EXCEPT ![i].pc = "done", ![i].resp = NoResp]
           /\ UNCHANGED <<sent, lock>>
    /\ UNCHANGED <<hosts, job_name, batches, batch_size, completed, keyboards,
                   worker, njobs, start_out>>

\* the BatchComplete arm building its BatchReq from the count it found, not
\* from the count it has just written
poll_batch_complete_stale_number(i) ==
    /\ i \in DOMAIN loops
    /\ loops[i].pc = "resp"
    /\ loops[i].resp.tag = "BatchComplete"
    /\ lock = 0
    /\ completed' = completed + 1
    /\ keyboards' = keyboards \o loops[i].resp.keyboards
    /\ status_out' = NoStatus
    /\ IF completed' < batches THEN
           /\ sent' = sent \cup {BatchReq(i)}
           /\ lock' = i
           /\ loops' = [loops EXCEPT ![i].pc = "post", ![i].resp = NoResp]
           /\ UNCHANGED running
       ELSE
           /\ running' = FALSE
           /\ loops' = [loops EXCEPT ![i].pc = "done", ![i].resp = NoResp]
           /\ UNCHANGED <<sent, lock>>
    /\ UNCHANGED <<hosts, job_name, batches, batch_size, worker, njobs, start_out>>

\* the BatchComplete arm testing completed <= batches
poll_batch_complete_off_by_one(i) ==
    /\ i \in DOMAIN loops
    /\ loops[i].pc = "resp"
    /\ loops[i].resp.tag = "BatchComplete"
    /\ lock = 0
    /\ completed' = completed + 1
    /\ keyboards' = keyboards \o loops[i].resp.keyboards
    /\ status_out' = NoStatus
    /\ IF completed' <= batches THEN
           /\ sent' = sent \cup {[BatchReq(i) EXCEPT !.batch_number = completed']}
           /\ lock' = i
           /\ loops' = [loops EXCEPT ![i].pc = "post", ![i].resp = NoResp]
           /\ UNCHANGED running
       ELSE
           /\ running' = FALSE
           /\ loops' = [loops EXCEPT ![i].pc = "done", ![i].resp = NoResp]
           /\ UNCHANGED <<sent, lock>>
    /\ UNCHANGED <<hosts, job_name, batches, batch_size, worker, njobs, start_out>>

\* UpdateResp::BatchComplete { keyboards }: lock, count the batch, keep its
\* keyboards, then assign the next batch or end the job
poll_batch_complete(i) ==
    /\ i \in DOMAIN loops
    /\ loops[i].pc = "resp"
    /\ loops[i].resp.tag = "BatchComplete"
    /\ lock = 0
    /\ completed' = completed + 1
    /\ keyboards' = keyboards \o loops[i].resp.keyboards
    /\ status_out' = NoStatus
    /\ IF completed' < batches THEN
           /\ sent' = sent \cup {[BatchReq(i) EXCEPT !.batch_number = completed']}
           /\ lock' = i
           /\ loops' = [loops EXCEPT ![i].pc = "post", ![i].resp = NoResp]
           /\ UNCHANGED running
       ELSE
           /\ running' = FALSE
           /\ loops' = [loops EXCEPT ![i].pc = "done", ![i].resp = NoResp]
           /\ UNCHANGED <<sent, lock>>
    /\ UNCHANGED <<hosts, job_name, batches, batch_size, worker, njobs, start_out>>

\* client.post(host + "/new").json(&BatchReq).send().await returned Ok: the
\* worker has the batch, the guard drops at the end of the match arm
poll_post_ok(i) ==
    /\ i \in DOMAIN loops
    /\ loops[i].pc = "post"
    /\ lock = i
    /\ worker' = [worker EXCEPT ![loops[i].host] = "busy"]
    /\ lock' = 0
    /\ loops' = [loops EXCEPT ![i].pc = "query"]
    /\ UNCHANGED <<hosts, job_name, running, batches, batch_size, completed,
                   keyboards, sent, njobs, start_out, status_out>>

\* a failed post whose guard is never dropped (a leaked or poisoned lock)
poll_post_fail_keeps_lock(i) ==
    /\ i \in DOMAIN loops
    /\ loops[i].pc = "post"
    /\ lock = i
    /\ loops' = [loops EXCEPT ![i].pc = "failed"]
    /\ UNCHANGED <<hosts, job_name, running, batches, batch_size, completed,
                   keyboards, lock, worker, sent, njobs, start_out, status_out>>

\* .expect("failed post") / .unwrap(): the task panics while it holds the
\* guard; unwinding drops the guard (a tokio Mutex is not poisoned)
poll_post_fail(i) ==
    /\ i \in DOMAIN loops
    /\ loops[i].pc = "post"
    /\ lock = i
    /\ lock' = 0
    /\ loops' = [loops EXCEPT ![i].pc = "failed"]
    /\ UNCHANGED <<hosts, job_name, running, batches, batch_size, completed,
                   keyboards, worker, sent, njobs, start_out, status_out>>

\* the remote worker finishes the batch it was given
worker_finish(h) ==
    /\ worker[h] = "busy"
    /\ worker' = [worker EXCEPT ![h] = "done"]
    /\ UNCHANGED <<hosts, job_name, running, batches, batch_size, completed,
                   keyboards, lock, loops, sent, njobs, start_out, status_out>>

\* a task per host of every accepted start_job
LoopIds == 1..(MaxHosts * MaxJobs)

AddWorker == \E h \in Hosts : add_server(h)
StartJobAny == \E f \in JobForms, total \in 0..MaxBatches :
                   start_job(f.job_name, f.batch_size, total)
StartJob == StartJobAny /\ Len(loops') <= MaxLoops
GetStatus == update
PollQuery == \E i \in LoopIds : poll_query(i)
PollQueryFail == \E i \in LoopIds : poll_query_fail(i)
PollInProgress == \E i \in LoopIds : poll_in_progress(i)
PollInit == \E i \in LoopIds : poll_init(i)
PollBatchComplete == \E i \in LoopIds : poll_batch_complete(i)
PollPostOk == \E i \in LoopIds : poll_post_ok(i)
PollPostFail == \E i \in LoopIds : poll_post_fail(i)
WorkerFinish == \E h \in Hosts : worker_finish(h)

Next ==
    \/ AddWorker
    \/ StartJob
    \/ GetStatus
    \/ PollQuery
    \/ PollQueryFail
    \/ PollInProgress
    \/ PollInit
    \/ PollBatchComplete
    \/ PollPostOk
    \/ PollPostFail
    \/ WorkerFinish

Spec == Init /\ [][Next]_vars

\* the runs in which no request to a worker fails
NextNoFail ==
    \/ AddWorker
    \/ StartJob
    \/ GetStatus
    \/ PollQuery
    \/ PollInProgress
    \/ PollInit
    \/ PollBatchComplete
    \/ PollPostOk
    \/ WorkerFinish

\* one step of poll loop i, whichever its position allows
LoopStep(i) ==
    \/ poll_query(i)
    \/ poll_in_progress(i)
    \/ poll_init(i)
    \/ poll_batch_complete(i)
    \/ poll_post_ok(i)

\* tokio runs every spawned task again and again and its Mutex hands the
\* lock to waiters in turn; a worker given a batch finishes it
FairSpec ==
    /\ Init
    /\ [][NextNoFail]_vars
    /\ \A i \in LoopIds : SF_vars(LoopStep(i))
    /\ \A h \in Hosts : WF_vars(worker_finish(h))

\* the runs of two jobs on the same hosts, the loops of the first still there
\* in the second: no status query, workers that report no keyboards
NextStale ==
    \/ AddWorker
    \/ StartJobAny
    \/ (PollQuery /\ \A i \in DOMAIN loops' : loops'[i].resp.keyboards = <<>>)
    \/ PollQueryFail
    \/ PollInProgress
    \/ PollInit
    \/ PollBatchComplete
    \/ PollPostOk
    \/ PollPostFail
    \/ WorkerFinish

StaleSpec == Init /\ [][NextStale]_vars

TypeOK ==
    /\ hosts \in Seq(Hosts) /\ Len(hosts) <= MaxHosts
    /\ running \in BOOLEAN
    /\ batches \in 0..MaxBatches
    /\ completed \in Nat
    /\ lock \in {0} \cup LoopIds
    /\ Len(loops) <= MaxHosts * MaxJobs
    /\ keyboards \in Seq(Keyboard)
    /\ completed <= MaxBatches + MaxLoops

\* ------------------------------------------------------------ claims
IsPrefix(s, t) == Len(s) <= Len(t) /\ \A n \in 1..Len(s) : s[n] = t[n]

\* b is the layout of an element of kbs with the least score, "" for no element
IsMinLayout(kbs, b) ==
    IF kbs = <<>> THEN b = NoLayout
    ELSE \E n \in DOMAIN kbs :
            /\ kbs[n].keys = b
            /\ \A m \in DOMAIN kbs : kbs[n].score <= kbs[m].score

\* within one job, a batch number goes to one worker only
OneWorkerPerBatch(reqs) ==
    \A a \in reqs, b \in reqs :
        (a.job = b.job /\ a.batch_number = b.batch_number)
            => a.device_name = b.device_name

\* C1: a StartJob issued while running is true answers the error and changes
\* neither the job name, batch_size, batches, running, completed, keyboards
\* nor the registry, and spawns no poll loop.
C1_RejectedStartJobChangesNothing ==
    [][(StartJob /\ running) =>
          /\ start_out' = "ERROR: job already in progress"
          /\ UNCHANGED <<job_name, batch_size, batches, running, completed,
                         keyboards, hosts, loops>>]_vars

C1_Witness ==
    /\ start_out = "ERROR: job already in progress"
    /\ running
    /\ njobs = 1

\* C2: within a job no batch_number is sent in a BatchAssignment to two
\* different workers.
C2_EachBatchAssignedOnce == OneWorkerPerBatch(sent)

\* C3: when no two workers were assigned the same batch number, a step that
\* takes running from true to false leaves completed equal to batches.
C3_CompletedEqualsTotalAtEnd ==
    [][(running /\ ~running' /\ OneWorkerPerBatch(sent')) => completed' = batches]_vars

\* C4: an accepted StartJob appends exactly one poll loop per registry entry,
\* in registry order; an AddWorker appends to the registry, spawns no loop and
\* sends nothing; every assignment goes to the host of a loop spawned by a
\* StartJob no later than the job it is sent in.
C4_LoopsAreRegistrySnapshot ==
    [][/\ (StartJob /\ ~running) =>
             /\ Len(loops') = Len(loops) + Len(hosts)
             /\ \A n \in 1..Len(loops) : loops'[n] = loops[n]
             /\ \A n \in 1..Len(hosts) :
                    /\ loops'[Len(loops) + n].host = hosts[n]
                    /\ loops'[Len(loops) + n].job = njobs'
       /\ AddWorker =>
             /\ Len(hosts') = Len(hosts) + 1
             /\ IsPrefix(hosts, hosts')
             /\ loops' = loops
             /\ sent' = sent
       /\ \A a \in sent' :
             \E i \in DOMAIN loops' :
                 loops'[i].host = a.device_name /\ loops'[i].job <= a.job]_vars

\* a host registered after the StartJob has no loop while the job assigns
\* batches to the snapshotted host
C4_Witness ==
    /\ running
    /\ Len(hosts) = 2
    /\ Len(loops) = 1
    /\ hosts[2] # hosts[1]
    /\ \E a \in sent : a.job = njobs /\ a.batch_number = 1

\* C5: with fair scheduling, no failing request and workers that finish
\* their batches, a running job that has at least one poll loop eventually
\* stops running.
C5_JobWithWorkerEventuallyEnds ==
    [](( /\ running
         /\ \E i \in DOMAIN loops : loops[i].job = njobs ) => <>(~running))

\* a job of two batches on two workers has ended
C5_Witness ==
    /\ ~running
    /\ njobs = 1
    /\ Len(loops) = 2
    /\ batches = 2
    /\ completed >= 2
    /\ \A i \in DOMAIN loops : loops[i].pc = "done"

\* C6: a step in which a poll loop fails ends that loop only: it does not
\* hold the lock afterwards, AppState is as it was, every other loop is as it
\* was; no ended loop ever holds the lock.
C6_FailureEndsOnlyThatLoop ==
    [][/\ \A i \in DOMAIN loops :
             (loops'[i].pc = "failed" /\ loops[i].pc # "failed") =>
                 /\ lock' # i
                 /\ lock' \in {0, lock}
                 /\ UNCHANGED <<hosts, job_name, running, batches, batch_size,
                                completed, keyboards>>
                 /\ \A j \in DOMAIN loops : j # i => loops'[j] = loops[j]
       /\ \A i \in DOMAIN loops' :
             loops'[i].pc \in {"failed", "done"} => lock' # i]_vars

\* the only loop failed on its post (its request was built, its worker never
\* got the batch), the lock is free and a status was served
C6_Witness ==
    /\ Len(loops) = 2
    /\ loops[1].pc = "failed"
    /\ loops[2].pc \notin {"failed", "done"}
    /\ loops[1].host # loops[2].host
    /\ \E a \in sent : a.device_name = loops[1].host
    /\ worker[loops[1].host] = "idle"
    /\ completed = 0
    /\ lock = 0
    /\ status_out.status = "RUNNING"

\* C7: GetStatus answers RUNNING(name) exactly when running; when not running,
\* COMPLETE(name) if keyboards is non-empty and INIT if it is empty; RUNNING
\* and COMPLETE carry the best layout over all of keyboards.
C7_StatusMatchesState ==
    [][update =>
          /\ (status_out'.status = "RUNNING") <=> running
          /\ ~running =>
                status_out'.status = IF keyboards # <<>> THEN "COMPLETE" ELSE "INIT"
          /\ status_out'.status \in {"RUNNING", "COMPLETE"} =>
                /\ status_out'.name = job_name
                /\ IsMinLayout(keyboards, status_out'.best)]_vars

C7_Witness ==
    /\ status_out.status = "RUNNING"
    /\ status_out.name = "job-b"
    /\ keyboards # <<>>
    /\ status_out.best = keyboards[Len(keyboards)].keys

\* C8: GetStatus changes nothing but its own answer, and answers the same as
\* the GetStatus before it when AppState has not changed in between.
C8_StatusReadOnlyIdempotent ==
    [][update =>
          /\ UNCHANGED <<hosts, job_name, running, batches, batch_size, completed,
                         keyboards, lock, loops, worker, sent, njobs>>
          /\ status_out # NoStatus => status_out' = status_out]_vars

\* a status was served over stored results that are not in score order
C8_Witness ==
    /\ status_out.status = "COMPLETE"
    /\ Len(keyboards) >= 2
    /\ keyboards # SortByScore(keyboards)

\* C9: the best result served is the layout of a keyboard of least score
\* among the stored ones, and the empty layout when none is stored.
C9_BestResultIsMinimum ==
    status_out # NoStatus => IsMinLayout(keyboards, status_out.best)

\* three results, the best one in the middle
C9_Witness ==
    /\ Len(keyboards) = 3
    /\ keyboards[2].score < keyboards[1].score
    /\ keyboards[2].score < keyboards[3].score
    /\ status_out # NoStatus
    /\ status_out.best = keyboards[2].keys
    /\ status_out.best # keyboards[1].keys

C9_WitnessEmpty ==
    /\ status_out.status = "RUNNING"
    /\ keyboards = <<>>
    /\ status_out.best = NoLayout

\* C10: completed never decreases and keyboards only grows at its end.
C10_ProgressMonotone ==
    [][completed' >= completed /\ IsPrefix(keyboards, keyboards')]_vars

\* progress of the first job is still there in the second
C10_Witness ==
    /\ njobs = 2
    /\ running
    /\ completed >= 2
    /\ Len(keyboards) >= 2

\* C11: after an accepted StartJob, completed never exceeds batches.
C11_CompletedNeverExceedsTotal ==
    njobs >= 1 => completed <= batches

\* the same within the first job, where completed started at 0
C11_FirstJobNeverExceedsTotal ==
    njobs = 1 => completed <= batches

\* C12: a step in which a poll loop keeps the lock is the sending of one
\* BatchReq: it carries the job name, the batch size and, as batch_number,
\* the value of completed the step leaves (unchanged after Init, one more after
\* BatchComplete), which is at least 0 and less than batches; no other step
\* builds a BatchReq.
C12_AssignmentCarriesCounter ==
    [][/\ \A i \in LoopIds :
             (lock = 0 /\ lock' = i) =>
                 LET req == [job_name |-> job_name', device_name |-> loops[i].host,
                             batch_size |-> batch_size', batch_number |-> completed',
                             job |-> njobs']
                 IN  /\ req \in sent'
                     /\ sent' \ sent \subseteq {req}
                     /\ 0 <= completed'
                     /\ completed' < batches'
                     /\ loops[i].resp.tag = "Init" => completed' = completed
                     /\ loops[i].resp.tag = "BatchComplete" => completed' = completed + 1
       /\ (lock # 0 \/ lock' = 0) => sent' = sent]_vars

\* the second batch of a job is on its way, sent from the BatchComplete arm
C12_Witness ==
    /\ lock # 0
    /\ njobs = 1
    /\ completed = 1
    /\ batches = 2
    /\ Len(keyboards) = 1
    /\ [job_name |-> job_name, device_name |-> loops[lock].host,
        batch_size |-> batch_size, batch_number |-> 1, job |-> 1] \in sent

\* C13: the step that handles a BatchComplete adds 1 to completed, appends the
\* reported keyboards to keyboards, and then either keeps the lock with one
\* BatchReq on its way (new completed < batches, running untouched) or clears
\* running, ends the loop and frees the lock; while a loop holds the lock no
\* step reads or writes AppState.
C13_BatchCompleteOneCriticalSection ==
    [][/\ \A i \in DOMAIN loops :
             (/\ loops[i].pc = "resp"
              /\ loops[i].resp.tag = "BatchComplete"
              /\ loops'[i] # loops[i]) =>
                 /\ lock = 0
                 /\ completed' = completed + 1
                 /\ Len(keyboards') = Len(keyboards) + Len(loops[i].resp.keyboards)
                 /\ IsPrefix(keyboards, keyboards')
                 /\ \A n \in 1..Len(loops[i].resp.keyboards) :
                        keyboards'[Len(keyboards) + n] = loops[i].resp.keyboards[n]
                 /\ UNCHANGED <<job_name, batches, batch_size, hosts>>
                 /\ IF completed' < batches
                    THEN /\ lock' = i
                         /\ loops'[i].pc = "post"
                         /\ running' = running
                         /\ \E a \in sent' :
                               /\ a.device_name = loops[i].host
                               /\ a.batch_number = completed'
                               /\ sent' \ sent \subseteq {a}
                    ELSE /\ lock' = 0
                         /\ loops'[i].pc = "done"
                         /\ ~running'
                         /\ sent' = sent
       /\ lock # 0 =>
             /\ UNCHANGED <<hosts, job_name, running, batches, batch_size,
                            completed, keyboards>>
             /\ status_out' = status_out
             /\ start_out' = start_out]_vars

\* the last BatchComplete of a two-batch job was handled: its keyboard is the
\* second stored one, the job is over and the lock is free
C13_Witness ==
    /\ njobs = 1
    /\ batches = 2
    /\ completed = 2
    /\ Len(keyboards) = 2
    /\ keyboards[1] # keyboards[2]
    /\ ~running
    /\ lock = 0
    /\ Len(loops) = 1
    /\ loops[1].pc = "done"

\* C14: the step that handles an InProgress changes no field of AppState,
\* builds no BatchReq and takes no lock; the step that handles an Init leaves
\* completed, keyboards, the job fields and hosts as they were, and either
\* sends one BatchReq (completed < batches, running untouched) or clears
\* running and ends the loop.
C14_PollingDoesNotAdvance ==
    [][\A i \in DOMAIN loops :
          /\ (/\ loops[i].pc = "resp"
              /\ loops[i].resp.tag = "InProgress"
              /\ loops'[i] # loops[i]) =>
                 /\ UNCHANGED <<hosts, job_name, running, batches, batch_size,
                                completed, keyboards>>
                 /\ sent' = sent
                 /\ lock' = lock
                 /\ loops'[i].pc = "query"
          /\ (/\ loops[i].pc = "resp"
              /\ loops[i].resp.tag = "Init"
              /\ loops'[i] # loops[i]) =>
                 /\ UNCHANGED <<hosts, job_name, batches, batch_size,
                                completed, keyboards>>
                 /\ IF completed < batches
                    THEN /\ running' = running
                         /\ lock' = i
                         /\ loops'[i].pc = "post"
                         /\ \E a \in sent' :
                               /\ a.device_name = loops[i].host
                               /\ a.batch_number = completed
                               /\ sent' \ sent \subseteq {a}
                    ELSE /\ ~running'
                         /\ loops'[i].pc = "done"
                         /\ sent' = sent
                         /\ lock' = 0]_vars

\* one loop was answered InProgress while another, answered Init, has its
\* BatchReq on the way; nothing has been counted
C14_Witness ==
    \E i \in DOMAIN loops, j \in DOMAIN loops :
        /\ loops[i].pc = "resp"
        /\ loops[i].resp.tag = "InProgress"
        /\ lock = j
        /\ loops[j].host # loops[i].host
        /\ completed = 0
        /\ keyboards = <<>>
        /\ running

\* C15: no poll loop holds the lock while its status query, its sleep or its
\* post to the worker is under way.
C15_NoLockAcrossIO ==
    \A i \in DOMAIN loops :
        loops[i].pc \in {"query", "resp", "post"} => lock # i

\* job j has ended: a later job was accepted, or it is the last one and
\* running is false
JobEnded(j) == j < njobs \/ (j = njobs /\ ~running)

\* loop i handles an Init or a BatchComplete in this step
Handles(i) ==
    /\ loops[i].pc = "resp"
    /\ loops[i].resp.tag \in {"Init", "BatchComplete"}
    /\ loops'[i] # loops[i]

\* C16: a poll loop whose job has ended ends at its next Init or BatchComplete
\* handling and builds no BatchReq, whatever happened since, a later accepted
\* StartJob included.
C16_EndedJobLoopsSendNothing ==
    [][\A i \in DOMAIN loops :
          (JobEnded(loops[i].job) /\ Handles(i)) =>
              (loops'[i].pc = "done" /\ sent' = sent)]_vars

\* the same as long as no later StartJob was accepted
C16_EndedLastJobLoopsSendNothing ==
    [][\A i \in DOMAIN loops :
          (loops[i].job = njobs /\ ~running /\ Handles(i)) =>
              (loops'[i].pc = "done" /\ sent' = sent)]_vars

\* C17: the step of an accepted StartJob (njobs grows) is taken with running
\* false and writes the submitted name, batch size and batches and running =
\* TRUE; completed, keyboards and hosts are as before, and so are the lock,
\* the workers and the BatchReqs sent.
C17_StartJobKeepsProgress ==
    [][njobs' # njobs =>
          /\ njobs' = njobs + 1
          /\ ~running
          /\ running'
          /\ \E f \in JobForms :
                job_name' = f.job_name /\ batch_size' = f.batch_size
          /\ batches' \in 0..MaxBatches
          /\ completed' = completed
          /\ keyboards' = keyboards
          /\ hosts' = hosts
          /\ UNCHANGED <<lock, worker, sent>>]_vars

\* the second job asked for as many batches as the first had completed: its
\* loop ended it on the first Init and no batch of it was ever sent
C17_Witness ==
    /\ njobs = 2
    /\ ~running
    /\ batches = 2
    /\ completed = 2
    /\ Len(keyboards) = 2
    /\ \A a \in sent : a.job = 1
    /\ Len(loops) = 2
    /\ loops[2].job = 2
    /\ loops[2].pc = "done"

\* C18: the poll loops alive are at most as many as the registry entries the
\* last accepted StartJob cloned, and all of them were spawned by it.
C18_LiveLoopsOfLastJobOnly ==
    /\ Cardinality({i \in DOMAIN loops : Alive(i)})
          <= Cardinality({i \in DOMAIN loops : loops[i].job = njobs})
    /\ \A i \in DOMAIN loops : Alive(i) => loops[i].job = njobs

\* C19: every accepted StartJob is eventually followed by running = FALSE.
C19_EveryJobEventuallyEnds ==
    [](running => <>(~running))

\* while a job runs, some poll loop is left to end it
C19_RunningJobHasLiveLoop ==
    running => \E i \in DOMAIN loops : Alive(i)

\* C20: once a job has ended and until the next StartJob is accepted, a status
\* served is COMPLETE with the job's name, never INIT.
C20_CompleteAfterJobEnded ==
    (njobs >= 1 /\ ~running /\ status_out # NoStatus) =>
        (status_out.status = "COMPLETE" /\ status_out.name = job_name)
====
